---------------------------- MODULE Spec2Model ----------------------------
(***************************************************************************)
(* Verification model of the neoke cloud wallet client: the session        *)
(* manager (AuthContext), the module-level HTTP client base URL, the       *)
(* dashboard's credential fetch cycle and the local/server credential      *)
(* reconciliation (localCredentials.ts).                                   *)
(***************************************************************************)
EXTENDS Integers, Sequences, FiniteSets, TLC

(***************************************************************************)
(* Bounds of the model.                                                    *)
(***************************************************************************)
MaxCreds == 2

MaxInFlight == 1

MaxTokens == 2

MaxClock == 2
\* fetch cycles of the dashboard in flight at once
MaxOverlap == 2

(***************************************************************************)
(* JavaScript values.  An object is a function from the keys it has to     *)
(* their values; a key may be present with the value undefined.            *)
(***************************************************************************)
Undef == "undefined"

Get(c, f) == IF f \in DOMAIN c THEN c[f] ELSE Undef

\* a ?? b
Coalesce(a, b) == IF a = Undef THEN b ELSE a

\* a || b  (on strings: undefined and '' are falsy)
OrElse(a, b) == IF a \in {Undef, ""} THEN b ELSE a

\* arr.find(p): index of the first element satisfying p, 0 when none
FindIndex(arr, P(_)) ==
  IF \E i \in DOMAIN arr : P(arr[i])
    THEN CHOOSE i \in DOMAIN arr : P(arr[i]) /\ \A j \in 1..(i - 1) : ~P(arr[j])
    ELSE 0

\* arr.filter(p)
Filter(arr, P(_)) == SelectSeq(arr, P)

(***************************************************************************)
(* JSON.stringify drops the keys whose value is undefined; JSON.parse      *)
(* gives back the object the text denotes.  The text stored under a        *)
(* localStorage key is represented by the list of objects it denotes.      *)
(* `type` is always an array and `_credentialIndex` always a number where  *)
(* the key is present, so neither is ever undefined.                       *)
(***************************************************************************)
StringifyCred(c) ==
  LET keep == {f \in DOMAIN c : f \in {"type", "_credentialIndex"} \/ c[f] # Undef}
  IN [f \in keep |-> c[f]]

JSONstringify(list) == [i \in DOMAIN list |-> StringifyCred(list[i])]

JSONparse(text) == text

\* localStorage.getItem(STORAGE_KEY): null or the stored text
NoItem == [set |-> FALSE, text |-> <<>>]

Item(text) == [set |-> TRUE, text |-> text]

(***************************************************************************)
(* store/localCredentials.ts: the credential cache kept under the          *)
(* localStorage key 'neoke_credentials'.  Each operation takes the item    *)
(* currently stored and gives the item stored afterwards.                  *)
(***************************************************************************)
getLocalCredentials(item) == IF item.set THEN JSONparse(item.text) ELSE <<>>

saveLocalCredential(item, credential) ==
  LET existing == getLocalCredentials(item)
      updated  == <<credential>> \o Filter(existing, LAMBDA c : c.id # credential.id)
  IN Item(JSONstringify(updated))

deleteLocalCredential(item, id) ==
  LET existing == getLocalCredentials(item)
      updated  == Filter(existing, LAMBDA c : c.id # id)
  IN Item(JSONstringify(updated))

clearLocalCredentials(item) == NoItem

\* the keys the merged object literal sets after the spread of localMatch
MergedKeys ==
  {"id", "issuer", "issuanceDate", "expirationDate", "status",
   "_availableClaims", "namespaces", "displayMetadata"}

\* local.find((lc) => lc.id === serverCred.id)
FindLocalMatch(local, serverCred) ==
  FindIndex(local, LAMBDA lc : lc.id = serverCred.id)

\* a merge in which the server's silence blanks the local field data
MergeEntryServerOnly(localMatch, serverCred) ==
  LET lit == [id               |-> serverCred.id,
              issuer           |-> Get(serverCred, "issuer"),
              issuanceDate     |-> Get(serverCred, "issuanceDate"),
              expirationDate   |-> Get(serverCred, "expirationDate"),
              status           |-> Get(serverCred, "status"),
              _availableClaims |-> Get(serverCred, "_availableClaims"),
              namespaces       |-> Get(serverCred, "namespaces"),
              displayMetadata  |-> Get(serverCred, "displayMetadata")]
  IN [f \in DOMAIN localMatch \cup MergedKeys |->
        IF f \in MergedKeys THEN lit[f] ELSE localMatch[f]]

\* { ...localMatch, id: ..., issuer: ..., ... }
MergeEntry(localMatch, serverCred) ==
  LET lit == [id               |-> serverCred.id,
              issuer           |-> OrElse(Get(serverCred, "issuer"), Get(localMatch, "issuer")),
              issuanceDate     |-> Coalesce(Get(serverCred, "issuanceDate"),
                                            Get(localMatch, "issuanceDate")),
              expirationDate   |-> Coalesce(Get(serverCred, "expirationDate"),
                                            Get(localMatch, "expirationDate")),
              status           |-> Coalesce(Get(serverCred, "status"), Get(localMatch, "status")),
              _availableClaims |-> Coalesce(Get(serverCred, "_availableClaims"),
                                            Get(localMatch, "_availableClaims")),
              namespaces       |-> Coalesce(Get(serverCred, "namespaces"),
                                            Get(localMatch, "namespaces")),
              displayMetadata  |-> Coalesce(Get(serverCred, "displayMetadata"),
                                            Get(localMatch, "displayMetadata"))]
  IN [f \in DOMAIN localMatch \cup MergedKeys |->
        IF f \in MergedKeys THEN lit[f] ELSE localMatch[f]]

\* serverCreds.map((serverCred) => ...)
MergeList(local, serverCreds) ==
  [i \in DOMAIN serverCreds |->
     LET m == FindLocalMatch(local, serverCreds[i])
     IN IF m # 0 THEN MergeEntry(local[m], serverCreds[i]) ELSE serverCreds[i]]

\* a write-back that stores the server list instead of the merged one
MergeWriteServerList(item, serverCreds) ==
  LET local == getLocalCredentials(item)
  IN IF Len(serverCreds) = 0
       THEN [ret |-> local, item |-> item]
       ELSE [ret  |-> MergeList(local, serverCreds),
             item |-> Item(JSONstringify(serverCreds))]

\* a write-back that removes the cache item instead of storing the merged list
MergeForgetCache(item, serverCreds) ==
  LET local == getLocalCredentials(item)
  IN IF Len(serverCreds) = 0
       THEN [ret |-> local, item |-> item]
       ELSE [ret |-> MergeList(local, serverCreds), item |-> NoItem]

\* mergeWithLocalCredentials(serverCreds): the list returned and the item
\* left in localStorage
mergeWithLocalCredentials(item, serverCreds) ==
  LET local == getLocalCredentials(item)
  IN IF Len(serverCreds) = 0
       THEN [ret |-> local, item |-> item]
       ELSE LET merged == MergeList(local, serverCreds)
            IN [ret |-> merged, item |-> Item(JSONstringify(merged))]

(***************************************************************************)
(* api/client.ts: the credentials the discovery step hands to the          *)
(* reconciliation.                                                         *)
(***************************************************************************)
\* new Date(sec * 1000).toISOString()
ISO(sec) ==
  CASE sec = 100 -> "1970-01-01T00:01:40.000Z"
    [] sec = 200 -> "1970-01-01T00:03:20.000Z"
    [] OTHER     -> "1970-01-01T00:00:00.000Z"

\* one element of fetchStoredCredentials' raw.map(...); an absent issuedAt
\* or expiresAt is 0 (falsy either way)
StoredCredential(raw, nowSec) ==
  [id              |-> raw.id,
   type            |-> raw.type,
   docType         |-> IF Len(raw.type) > 0 THEN raw.type[1] ELSE "",
   issuer          |-> raw.issuer,
   issuanceDate    |-> IF raw.issuedAt # 0 THEN ISO(raw.issuedAt) ELSE Undef,
   expirationDate  |-> IF raw.expiresAt # 0 THEN ISO(raw.expiresAt) ELSE Undef,
   status          |-> IF raw.expiresAt # 0 /\ nowSec > raw.expiresAt THEN "expired" ELSE "active",
   namespaces      |-> raw.nameSpaces,
   displayMetadata |-> raw.display]

\* `server-${docType}-${cand.index}`
StubId(docType, index) == "server-" \o docType \o "-" \o ToString(index)

\* the stub discoverWalletCredentials builds from one VP-preview candidate
StubCredential(cand, nowSec) ==
  LET docType == IF Len(cand.type) > 0 THEN cand.type[1] ELSE ""
  IN [id               |-> StubId(docType, cand.index),
      type             |-> cand.type,
      issuer           |-> cand.issuer,
      docType          |-> docType,
      expirationDate   |-> IF cand.expiresAt # 0 THEN ISO(cand.expiresAt) ELSE Undef,
      status           |-> IF cand.expiresAt # 0 /\ nowSec > cand.expiresAt
                             THEN "expired" ELSE "active",
      _availableClaims |-> cand.available,
      _credentialIndex |-> cand.index]

(***************************************************************************)
(* State.                                                                  *)
(***************************************************************************)
VARIABLES
  credItem,     \* localStorage['neoke_credentials']
  credentials,  \* DashboardScreen: the displayed list (useState)
  serverCreds,  \* the list the last discovery returned
  call,         \* the last reconciliation performed and what it returned
  now,          \* Date.now()
  auth,         \* AuthProvider: the reducer state
  stored,       \* sessionStorage token and expiry, localStorage node id and activity
  baseUrlC,     \* api/client.ts: the module-level _baseUrl
  interval,     \* AuthProvider: the expiry watch armed through intervalRef
  mounted,      \* whether the AuthProvider is mounted
  currentView,  \* AppInner: the authenticated view
  pending,      \* AppInner: the node chosen in onboarding step 1 ("" in step 1)
  usingLocalFallback, \* DashboardScreen: the offline badge
  fetchError,   \* DashboardScreen: whether the fetch error is shown
  ops,          \* the asynchronous calls in flight
  issued,       \* how many bearer tokens the nodes have issued
  dead,         \* the tokens the nodes no longer accept
  wallet,       \* the credentials the node holds for the wallet
  selected,     \* AppInner: the id of selectedCredential ("" for null)
  present,      \* PresentScreen: the stage of the presentation
  last          \* what the step just taken observed

mergeVars == <<credItem, credentials, serverCreds, call>>

sessionVars ==
  <<now, auth, stored, baseUrlC, interval, mounted, currentView, pending,
    usingLocalFallback, fetchError, ops, issued, dead, wallet, selected, present, last>>

vars == <<mergeVars, sessionVars>>

(***************************************************************************)
(* context/AuthContext.tsx: the session manager.                           *)
(***************************************************************************)
\* null, for a string (nodeIdentifier, baseUrl, a storage item)
Null == "null"

\* null, for a number (expiresAt; an absent numeric storage item)
NoNumber == -1

\* no bearer token (null); a token names the node that issued it
NoToken == [node |-> "", k |-> 0]

INACTIVITY_MS == 7 * 24 * 60 * 60 * 1000

\* the 5-minute pre-expiry window of the expiry watch
EXPIRY_WINDOW_MS == 300000

\* restore treats a token within 1 minute of expiry as expired
RESTORE_GUARD_MS == 60000

\* the period of the expiry watch
WATCH_MS == 15000

TruthyStr(x) == x \notin {Null, ""}

TruthyNum(n) == n # NoNumber /\ n # 0

NodeIds == {"n1", "n2"}

\* nodeIdentifierToUrl on a short identifier (no scheme, no dot)
nodeIdentifierToUrl(identifier) == "https://" \o identifier \o ".id-node.neoke.com"

\* the node an API base URL addresses ("" when none)
NodeOfUrl(url) ==
  IF \E n \in NodeIds : nodeIdentifierToUrl(n) = url
    THEN CHOOSE n \in NodeIds : nodeIdentifierToUrl(n) = url
    ELSE ""

\* setBaseUrl(url): url.replace(/\/$/, ''); no URL of the model ends in '/'
setBaseUrl(url) == url

EmptyAuth ==
  [token |-> NoToken, expiresAt |-> NoNumber, sessionExpired |-> FALSE,
   nodeIdentifier |-> Null, baseUrl |-> Null]

ReduceExpired(state) == [state EXCEPT !.token = NoToken, !.sessionExpired = TRUE]

authReducer(state, action) ==
  CASE action.type = "SET_NODE" ->
         [state EXCEPT !.nodeIdentifier = action.nodeIdentifier, !.baseUrl = action.baseUrl]
    [] action.type = "SET_TOKEN" ->
         [state EXCEPT !.token = action.token, !.expiresAt = action.expiresAt,
                       !.sessionExpired = FALSE]
    [] action.type = "SESSION_EXPIRED" -> ReduceExpired(state)
    [] action.type = "LOGOUT" -> EmptyAuth
    [] OTHER -> state

SetNode(n, url) == [type |-> "SET_NODE", nodeIdentifier |-> n, baseUrl |-> url]

SetToken(t, e) == [type |-> "SET_TOKEN", token |-> t, expiresAt |-> e]

SessionExpired == [type |-> "SESSION_EXPIRED"]

LogoutAction == [type |-> "LOGOUT"]

\* the session states of the specification
Authenticated(a) == a.token # NoToken

Expired(a) == a.token = NoToken /\ a.sessionExpired

Unauthenticated(a) == a.token = NoToken /\ ~a.sessionExpired

\* the storage keys of the session: sessionStorage token and expiry (the
\* expiry text is represented by the integer it denotes, as written by
\* toString() and read by parseInt), localStorage node id and activity
EmptyStorage ==
  [token |-> NoToken, expires |-> NoNumber, nodeId |-> Null, activity |-> NoNumber]

\* an activity check that honours any recorded activity, however old
isWithinActivityWindowUnbounded(st, t) == st.activity # NoNumber

isWithinActivityWindow(st, t) ==
  st.activity # NoNumber /\ t - st.activity < INACTIVITY_MS

\* a restore without the near-expiry guard: a token is refused only once
\* its expiry has passed
initStateNoGuard(st, t) ==
  IF ~isWithinActivityWindow(st, t) THEN [state |-> EmptyAuth, prime |-> ""]
  ELSE IF ~TruthyStr(st.nodeId) THEN [state |-> EmptyAuth, prime |-> ""]
  ELSE IF st.token = NoToken \/ st.expires = NoNumber THEN [state |-> EmptyAuth, prime |-> ""]
  ELSE IF t >= st.expires THEN [state |-> EmptyAuth, prime |-> ""]
  ELSE [state |-> [token |-> st.token, expiresAt |-> st.expires, sessionExpired |-> FALSE,
                   nodeIdentifier |-> st.nodeId,
                   baseUrl |-> nodeIdentifierToUrl(st.nodeId)],
        prime |-> nodeIdentifierToUrl(st.nodeId)]

\* initState(): the restored state, and the URL the client is primed with
\* ("" when setBaseUrl is not called)
initState(st, t) ==
  IF ~isWithinActivityWindow(st, t) THEN [state |-> EmptyAuth, prime |-> ""]
  ELSE IF ~TruthyStr(st.nodeId) THEN [state |-> EmptyAuth, prime |-> ""]
  ELSE IF st.token = NoToken \/ st.expires = NoNumber THEN [state |-> EmptyAuth, prime |-> ""]
  ELSE IF t >= st.expires - RESTORE_GUARD_MS THEN [state |-> EmptyAuth, prime |-> ""]
  ELSE [state |-> [token |-> st.token, expiresAt |-> st.expires, sessionExpired |-> FALSE,
                   nodeIdentifier |-> st.nodeId,
                   baseUrl |-> nodeIdentifierToUrl(st.nodeId)],
        prime |-> nodeIdentifierToUrl(st.nodeId)]

\* effect [state.baseUrl]: keep the API client base URL in sync.  `old` is
\* the state of the previous render (EmptyAuth before the first: running an
\* effect for the first time on the empty state changes nothing)
EffectBaseUrl(old, new, base) ==
  IF new.baseUrl # old.baseUrl /\ TruthyStr(new.baseUrl)
    THEN setBaseUrl(new.baseUrl)
    ELSE base

\* a persist effect that leaves the session storage alone on expiry
EffectPersistKeepsToken(old, new, st, t) ==
  IF /\ new.token = old.token
     /\ new.expiresAt = old.expiresAt
     /\ new.nodeIdentifier = old.nodeIdentifier
     /\ new.sessionExpired = old.sessionExpired
    THEN st
  ELSE IF new.token # NoToken /\ TruthyNum(new.expiresAt) /\ TruthyStr(new.nodeIdentifier)
    THEN [token |-> new.token, expires |-> new.expiresAt,
          nodeId |-> new.nodeIdentifier, activity |-> t]
  ELSE st

\* effect [token, expiresAt, nodeIdentifier, sessionExpired]: persist
EffectPersist(old, new, st, t) ==
  IF /\ new.token = old.token
     /\ new.expiresAt = old.expiresAt
     /\ new.nodeIdentifier = old.nodeIdentifier
     /\ new.sessionExpired = old.sessionExpired
    THEN st
  ELSE IF new.token # NoToken /\ TruthyNum(new.expiresAt) /\ TruthyStr(new.nodeIdentifier)
    THEN [token |-> new.token, expires |-> new.expiresAt,
          nodeId |-> new.nodeIdentifier, activity |-> t]
  ELSE IF new.token = NoToken /\ new.sessionExpired
    THEN [st EXCEPT !.token = NoToken, !.expires = NoNumber]
  ELSE st

NoInterval == [armed |-> FALSE, expiresAt |-> NoNumber, due |-> 0, token |-> NoToken]

\* an expiry watch whose interval is not cleared when the token changes
EffectWatchLeaky(old, new, iv, t) ==
  IF new.token = old.token /\ new.expiresAt = old.expiresAt THEN iv
  ELSE IF new.token # NoToken /\ TruthyNum(new.expiresAt)
    THEN [armed |-> TRUE, expiresAt |-> new.expiresAt, due |-> t + WATCH_MS,
          token |-> new.token]
  ELSE iv

\* effect [token, expiresAt]: clear the interval, then arm it for the token
\* held (the callback closes over state.expiresAt; `token` records which
\* token that was)
EffectWatch(old, new, iv, t) ==
  IF new.token = old.token /\ new.expiresAt = old.expiresAt THEN iv
  ELSE IF new.token # NoToken /\ TruthyNum(new.expiresAt)
    THEN [armed |-> TRUE, expiresAt |-> new.expiresAt, due |-> t + WATCH_MS,
          token |-> new.token]
  ELSE NoInterval

\* the interval callback's test, with the 1-minute guard of the restore
WatchTripsLate(expiresAt, t) == TruthyNum(expiresAt) /\ t >= expiresAt - RESTORE_GUARD_MS

\* the interval callback's test
WatchTrips(expiresAt, t) == TruthyNum(expiresAt) /\ t >= expiresAt - EXPIRY_WINDOW_MS

(***************************************************************************)
(* App.tsx (AppInner): which screen is rendered.                           *)
(***************************************************************************)
ViewNames == {"dashboard", "detail", "receive", "present", "account"}

\* what AppInner renders
Screen(a, view, pend) ==
  IF a.sessionExpired THEN "reauth"
  ELSE IF a.token = NoToken THEN (IF pend = "" THEN "step1" ELSE "step2")
  ELSE view

\* effect [state.token] of AppInner: setCurrentView('dashboard') after a
\* login, setOnboardingStep(1) after a logout
ViewAfter(old, new, view) ==
  IF new.token # old.token /\ new.token # NoToken THEN "dashboard" ELSE view

PendingAfter(old, new, pend) ==
  IF new.token # old.token /\ new.token = NoToken THEN "" ELSE pend

(***************************************************************************)
(* The credentials the reconciliation is exercised on: two wallet entries  *)
(* as the stored-credentials endpoint reports them (with and without field *)
(* data), as the VP-preview fallback reports them (stubs), as the receive  *)
(* flow saved them, and the pair of the specification's merge example.     *)
(***************************************************************************)
WalletEntries ==
  { [id |-> "vc1", type |-> <<"D1">>,      issuer |-> "I1", index |-> 0],
    [id |-> "vc2", type |-> <<"D2", "T">>, issuer |-> "I2", index |-> 1] }

RawFull(e) ==
  [id |-> e.id, type |-> e.type, issuer |-> e.issuer, issuedAt |-> 100, expiresAt |-> 0,
   nameSpaces |-> "ns-server", display |-> "display-server"]

RawThin(e) ==
  [id |-> e.id, type |-> e.type, issuer |-> e.issuer, issuedAt |-> 0, expiresAt |-> 100,
   nameSpaces |-> Undef, display |-> Undef]

Candidate(e) ==
  [index |-> e.index, type |-> e.type, issuer |-> e.issuer, expiresAt |-> 0,
   available |-> "claims"]

ReceivedCredential(e) ==
  [id |-> e.id, type |-> e.type, docType |-> e.type[1], issuer |-> e.issuer,
   namespaces |-> "ns-local", displayMetadata |-> "display-local"]

ExampleLocal == [id |-> "X", namespaces |-> "a:1", displayMetadata |-> "label:L"]

ExampleServer == [id |-> "X", issuer |-> "I2", status |-> "revoked"]

\* a locally held credential with another id and docType than the server's
\* "vc2", sharing a type tag and the issuer with it
LegacyLocal ==
  [id |-> "old2", type |-> <<"T">>, docType |-> "T", issuer |-> "I2",
   namespaces |-> "ns-local"]

\* the server reporting "vc1" under another type, with an empty issuer
RetypedServer ==
  [id |-> "vc1", type |-> <<"D9">>, docType |-> "D9", issuer |-> "", status |-> "active"]

ServerPool ==
  {StoredCredential(RawFull(e), 150) : e \in WalletEntries}
    \cup {StoredCredential(RawThin(e), 150) : e \in WalletEntries}
    \cup {StubCredential(Candidate(e), 150) : e \in WalletEntries}
    \cup {ExampleServer, RetypedServer}

LocalPool == {ReceivedCredential(e) : e \in WalletEntries} \cup {ExampleLocal, LegacyLocal}

\* the lists of at most MaxCreds pool elements with pairwise different ids
ListsOver(pool) ==
  {l \in UNION {[1..n -> pool] : n \in 0..MaxCreds} :
     \A i, j \in DOMAIN l : i # j => l[i].id # l[j].id}

NoCall ==
  [op |-> "none", before |-> NoItem, server |-> <<>>, ret |-> <<>>,
   prevOp |-> "none", prevRet |-> <<>>]

\* what fetchCredentials does with the list discovery resolved with
\* (DashboardScreen.tsx lines 39-47): the item stored and the list displayed
ApplyServerCreds(item, server) ==
  IF Len(server) = 0
    THEN [item |-> clearLocalCredentials(item), shown |-> <<>>]
    ELSE LET r == mergeWithLocalCredentials(item, server)
         IN [item |-> r.item, shown |-> r.ret]


(***************************************************************************)
(* api/client.ts: the authenticated calls.  A call in flight is the request *)
(* it is currently waiting on; when that is answered the call either issues *)
(* its next request against the _baseUrl of that moment or ends.           *)
(***************************************************************************)
Entry1 == CHOOSE e \in WalletEntries : e.id = "vc1"

\* what GET /:/credentials/stored yields for the wallet
StoredList(w, t) == [i \in DOMAIN w |-> StoredCredential(RawFull(w[i]), t \div 1000)]

\* what the VP preview of discoverWalletCredentials yields for the wallet
StubList(w, t) == [i \in DOMAIN w |-> StubCredential(Candidate(w[i]), t \div 1000)]

\* credentialId.split(':').pop(): the ids of the model hold no colon
PathId(credentialId) == credentialId

NoRequest == [token |-> NoToken, node |-> "", base |-> Null]

\* (served, snap: the node has produced the answer to the request, from
\* the wallet it held then, and the response is on its way)
NoOp ==
  [kind |-> "none", stage |-> "", token |-> NoToken, node |-> "", prev |-> "",
   over |-> FALSE, arg |-> "", alive |-> FALSE, saw401 |-> FALSE,
   served |-> FALSE, snap |-> <<>>]

\* a call started by a mounted screen, before its first request
Op(kind, stage, token, arg) ==
  [NoOp EXCEPT !.kind = kind, !.stage = stage, !.token = token, !.arg = arg, !.alive = TRUE]

AuthKinds == {"signin", "reconnect"}

ApiKinds == {"fetch", "delete", "receive", "preview", "respond"}

\* the screen whose state a call updates when it ends
ScreenOf(kind) ==
  CASE kind = "fetch"     -> "dashboard"
    [] kind = "delete"    -> "detail"
    [] kind = "receive"   -> "receive"
    [] kind = "preview"   -> "present"
    [] kind = "respond"   -> "present"
    [] kind = "signin"    -> "step2"
    [] kind = "reconnect" -> "reauth"
    [] OTHER              -> "none"

\* how a request ended: "ok", "401", "net" (any other failure: ApiError
\* without status 401), "noBase" (request() throws before fetch)
NextRequest(stage) == [next |-> stage, outcome |-> ""]

End(outcome) == [next |-> "", outcome |-> outcome]

\* discoverWalletCredentials inside fetchCredentials' try/catch
FetchDisposition(stage, status) ==
  CASE stage = "stored" ->
         IF status = "ok" THEN End("apply") ELSE NextRequest("siopRequest")
    [] stage = "siopRequest" ->
         IF status = "ok" THEN NextRequest("preview")
         ELSE IF status = "401" THEN End("expired") ELSE End("fallback")
    [] OTHER ->
         IF status = "ok" THEN End("applyStubs")
         ELSE IF status = "401" THEN End("expired") ELSE End("fallback")

\* deleteCredential inside handleDelete
DeleteDisposition(stage, status) == End("deleted")

\* fetchKeys and receiveCredential inside processOfferUri
ReceiveDisposition(stage, status) ==
  CASE stage = "keys" -> NextRequest("receive")
    [] OTHER ->
         IF status = "ok" THEN End("saved")
         ELSE IF status = "401" THEN End("expired") ELSE End("error")

\* previewPresentation and its retry inside processPresentUri
PreviewDisposition(stage, status) ==
  CASE stage = "first" ->
         IF status = "ok" THEN End("previewed")
         ELSE IF status = "401" THEN End("expired") ELSE NextRequest("retry")
    [] OTHER ->
         IF status = "ok" THEN End("previewedSkip")
         ELSE IF status = "401" THEN End("expired") ELSE End("error")

\* respondPresentation and its retry inside handleShare
RespondDisposition(stage, status, skippedX509) ==
  CASE stage = "first" ->
         IF status = "ok" THEN End("presented")
         ELSE IF status = "401" THEN End("expired")
         ELSE IF skippedX509 = "" THEN NextRequest("retry") ELSE End("error")
    [] OTHER ->
         IF status = "ok" THEN End("presented")
         ELSE IF status = "401" THEN End("expired") ELSE End("error")

\* apiKeyAuth inside handleSignIn and handleReconnect
AuthDisposition(stage, status) == IF status = "ok" THEN End("token") ELSE End("authError")

Disposition(op, status) ==
  CASE op.kind = "fetch"   -> FetchDisposition(op.stage, status)
    [] op.kind = "delete"  -> DeleteDisposition(op.stage, status)
    [] op.kind = "receive" -> ReceiveDisposition(op.stage, status)
    [] op.kind = "preview" -> PreviewDisposition(op.stage, status)
    [] op.kind = "respond" -> RespondDisposition(op.stage, status, op.arg)
    [] OTHER               -> AuthDisposition(op.stage, status)

\* request(): the call goes on from the answer to its request until it
\* waits on a request again or ends; with no _baseUrl a request throws at once
RECURSIVE Proceed(_, _, _)
Proceed(op, status, base) ==
  LET d    == Disposition(op, status)
      seen == [op EXCEPT !.saw401 = op.saw401 \/ (op.kind = "fetch" /\ status = "401")]
      goes == [seen EXCEPT !.stage = d.next, !.served = FALSE, !.snap = <<>>]
  IN IF d.next = ""
       THEN [done |-> TRUE, outcome |-> d.outcome, op |-> seen]
     ELSE IF base = ""
       THEN Proceed(goes, "noBase", base)
     ELSE [done |-> FALSE, outcome |-> "", op |-> [goes EXCEPT !.node = NodeOfUrl(base)]]

\* the first request of a call: issued against `base`; when that throws at
\* once the call goes on against `later` (the _baseUrl after the effects of
\* the commit that started it)
Start(op, base, later) ==
  IF base = ""
    THEN Proceed(op, "noBase", later)
    ELSE [done |-> FALSE, outcome |-> "", op |-> [op EXCEPT !.node = NodeOfUrl(base)]]

RemoveAt(seq, i) == SubSeq(seq, 1, i - 1) \o SubSeq(seq, i + 1, Len(seq))

(***************************************************************************)
(* The application state a handler works on, and the commit that follows a *)
(* state update: the render, the effects of the screens mounted by it, the *)
(* effect of AppInner and the effects of the AuthProvider, in this order   *)
(* (React runs the effects of children before those of their parents).     *)
(***************************************************************************)
Cur ==
  [auth |-> auth, stored |-> stored, base |-> baseUrlC, interval |-> interval,
   view |-> currentView, selected |-> selected, pending |-> pending,
   fallback |-> usingLocalFallback, error |-> fetchError, ops |-> ops,
   item |-> credItem, shown |-> credentials, wallet |-> wallet, present |-> present,
   issued |-> issued, dead |-> dead, req |-> NoRequest]

Commit(s, a0, v0, p0, t) ==
  LET a1    == s.auth
      v2    == ViewAfter(a0, a1, s.view)
      p2    == PendingAfter(a0, a1, s.pending)
      scr0  == Screen(a0, v0, p0)
      scr1  == Screen(a1, s.view, s.pending)
      scr2  == Screen(a1, v2, p2)
      b1    == EffectBaseUrl(a0, a1, s.base)
      early == scr1 = "dashboard" /\ scr0 # "dashboard"
      late  == scr2 = "dashboard" /\ scr1 # "dashboard"
      \* the token changed under the mounted dashboard: fetchCredentials is a
      \* new callback and the effect [fetchCredentials, refreshSignal] runs again
      again == /\ scr0 = "dashboard" /\ scr1 = "dashboard" /\ scr2 = "dashboard"
               /\ a1.token # a0.token /\ a1.token # NoToken
      stays(screen) == screen = scr0 /\ scr0 = scr1 /\ scr1 = scr2
      ops1  == [i \in DOMAIN s.ops |->
                  [s.ops[i] EXCEPT !.alive = @ /\ stays(ScreenOf(s.ops[i].kind))]]
      \* DashboardScreen's mount effect: fetchCredentials()
      f     == Start(Op("fetch", "stored", a1.token, ""),
                     IF early \/ again THEN s.base ELSE b1, b1)
      local == getLocalCredentials(s.item)
      s1    == [s EXCEPT !.view = v2, !.pending = p2, !.base = b1,
                         !.stored = EffectPersist(a0, a1, s.stored, t),
                         !.interval = EffectWatch(a0, a1, s.interval, t),
                         !.ops = ops1,
                         !.present = IF stays("present") THEN s.present ELSE "scan"]
  IN IF early \/ late
       THEN IF f.done
              THEN [s1 EXCEPT !.shown = local, !.fallback = Len(local) > 0,
                              !.error = Len(local) = 0]
              ELSE [s1 EXCEPT !.shown = <<>>, !.fallback = FALSE, !.error = FALSE,
                              !.ops = Append(ops1, f.op),
                              !.req = [token |-> f.op.token, node |-> f.op.node,
                                       base |-> a1.baseUrl]]
     ELSE IF again
       THEN IF f.done
              THEN [s1 EXCEPT !.shown = local, !.fallback = Len(local) > 0,
                              !.error = Len(local) = 0]
              ELSE [s1 EXCEPT !.fallback = FALSE, !.error = FALSE,
                              !.ops = Append(ops1, f.op),
                              !.req = [token |-> f.op.token, node |-> f.op.node,
                                       base |-> a1.baseUrl]]
     ELSE IF scr2 = "dashboard"
       THEN s1
     ELSE [s1 EXCEPT !.shown = <<>>, !.fallback = FALSE, !.error = FALSE]

\* the commit that follows the handler's updates of the state rendered now
Committed(s) == Commit(s, auth, currentView, pending, now)

\* at most k calls are in flight in s
Fits(k, s) == Len(s.ops) <= k

NoEvent ==
  [ev |-> "none", kind |-> "", stage |-> "", status |-> "", outcome |-> "",
   saw401 |-> FALSE, token |-> NoToken, held |-> NoToken, exp |-> NoNumber,
   req |-> NoRequest, alive |-> FALSE, activity |-> NoNumber]

\* the tokens the client holds anywhere
TokensOf(s) ==
  ({s.auth.token, s.stored.token} \cup {s.ops[i].token : i \in DOMAIN s.ops}) \ {NoToken}

\* the state s and the observation e are the next state (a token the client
\* no longer holds is never sent again: whether it is dead is forgotten)
Assign(s, e) ==
  /\ auth' = s.auth
  /\ stored' = s.stored
  /\ baseUrlC' = s.base
  /\ interval' = s.interval
  /\ currentView' = s.view
  /\ selected' = s.selected
  /\ pending' = s.pending
  /\ usingLocalFallback' = s.fallback
  /\ fetchError' = s.error
  /\ ops' = s.ops
  /\ credItem' = s.item
  /\ credentials' = s.shown
  /\ UNCHANGED <<serverCreds, call>>
  /\ wallet' = s.wallet
  /\ present' = s.present
  /\ issued' = s.issued
  /\ dead' = s.dead \cap TokensOf(s)
  /\ last' = [e EXCEPT !.req = s.req]

Becomes(k, s, e) == Fits(k, s) /\ Assign(s, e)

Rendered == Screen(auth, currentView, pending)

(***************************************************************************)
(* What a call does when it ends.  A setState on an unmounted screen does  *)
(* nothing (alive); a dispatch of the session manager, a navigation and    *)
(* the local storage take effect either way.                               *)
(***************************************************************************)
\* fetchCredentials lines 39-47 on the list discovery resolved with
Applied(s, op, list) ==
  LET r == ApplyServerCreds(s.item, list)
  IN [s EXCEPT !.item = r.item,
               !.shown = IF op.alive THEN r.shown ELSE s.shown]

\* a fallback that shows an empty list and signals nothing
FellBackSilent(s, op) ==
  IF op.alive
    THEN [s EXCEPT !.shown = <<>>, !.fallback = FALSE, !.error = FALSE]
    ELSE s

\* fetchCredentials lines 54-60: the local cache shown in place of the server's list
FellBack(s, op) ==
  LET local == getLocalCredentials(s.item)
  IN IF op.alive
       THEN [s EXCEPT !.shown = local, !.fallback = Len(local) > 0, !.error = Len(local) = 0]
       ELSE s

\* onSuccess of step 2, or handleReconnect after apiKeyAuth resolved
SignedIn(state, op, token, expiresAt) ==
  IF op.kind = "signin"
    THEN authReducer(authReducer(state, SetNode(op.arg, nodeIdentifierToUrl(op.arg))),
                     SetToken(token, expiresAt))
    ELSE authReducer(state, SetToken(token, expiresAt))

\* the wallet the answer to the request of op was produced from
Listed(s, op) == IF op.served THEN op.snap ELSE s.wallet

Finish(s, op, outcome, expiresAt) ==
  CASE outcome = "expired" ->
         [s EXCEPT !.auth = authReducer(s.auth, SessionExpired)]
    [] outcome = "apply" -> Applied(s, op, StoredList(Listed(s, op), now))
    [] outcome = "applyStubs" -> Applied(s, op, StubList(Listed(s, op), now))
    [] outcome = "fallback" -> FellBack(s, op)
    [] outcome = "deleted" ->
         [s EXCEPT !.item = deleteLocalCredential(s.item, op.arg),
                   !.view = "dashboard", !.selected = ""]
    [] outcome = "saved" ->
         [s EXCEPT !.item = saveLocalCredential(s.item, ReceivedCredential(Entry1))]
    [] outcome = "previewed" -> IF op.alive THEN [s EXCEPT !.present = "consent"] ELSE s
    [] outcome = "previewedSkip" ->
         IF op.alive THEN [s EXCEPT !.present = "consentSkipped"] ELSE s
    [] outcome = "presented" -> IF op.alive THEN [s EXCEPT !.present = "done"] ELSE s
    [] outcome = "error" ->
         IF op.alive /\ op.kind \in {"preview", "respond"}
           THEN [s EXCEPT !.present = "error"] ELSE s
    [] outcome = "token" ->
         LET token == [node |-> op.node, k |-> s.issued + 1]
         IN [s EXCEPT !.auth = SignedIn(s.auth, op, token, expiresAt),
                      !.issued = s.issued + 1]
    [] OTHER -> s

\* a screen starts a call: its first request, and the end of the call when
\* every request of it throws at once
Launch(s, op) ==
  LET r == Start(op, s.base, s.base)
  IN IF r.done
       THEN Finish(s, r.op, r.outcome, NoNumber)
       ELSE [s EXCEPT !.ops = Append(s.ops, r.op),
                      !.req = [token |-> op.token, node |-> r.op.node,
                               base |-> s.auth.baseUrl]]

Busy(kind) == \E i \in DOMAIN ops : ops[i].kind = kind /\ ops[i].alive

Room(k) == Len(ops) < k

(***************************************************************************)
(* The nodes.  A node accepts a bearer token it issued and has not yet     *)
(* invalidated; any request may fail on the network.                       *)
(***************************************************************************)
Accepted(op) == op.token.node = op.node /\ op.token \notin dead

Answers(op) == IF op.served \/ Accepted(op) THEN {"ok", "net"} ELSE {"401", "net"}

\* the lifetime a node gives its tokens: the first watch tick after a login
\* falls exactly on the start of the expiry window (n1) or 1 ms before it (n2)
Lifetime(node) ==
  IF node = "n1" THEN EXPIRY_WINDOW_MS + WATCH_MS ELSE EXPIRY_WINDOW_MS + WATCH_MS + 1

\* the wallet the node holds after it answered
ServerEffect(op, status, w) ==
  IF status # "ok" THEN w
  ELSE IF op.kind = "delete" THEN SelectSeq(w, LAMBDA e : e.id # PathId(op.arg))
  ELSE IF op.kind = "receive" /\ op.stage = "receive" /\ (\A i \in DOMAIN w : w[i] # Entry1)
    THEN Append(w, Entry1)
  ELSE w

(***************************************************************************)
(* Actions.                                                                *)
(***************************************************************************)
\* time passes
AdvanceClock ==
  /\ now < MaxClock * WATCH_MS
  /\ now' = now + WATCH_MS
  /\ Becomes(MaxInFlight, Cur, NoEvent)
  /\ UNCHANGED mounted

\* the interval callback of the expiry watch
Tick ==
  /\ mounted /\ interval.armed /\ now >= interval.due
  /\ LET trips == WatchTrips(interval.expiresAt, now)
         e == [NoEvent EXCEPT !.ev = "tick", !.token = interval.token, !.held = auth.token,
                              !.exp = interval.expiresAt,
                              !.outcome = IF trips THEN "expired" ELSE ""]
     IN IF trips
          THEN Becomes(MaxInFlight, Committed([Cur EXCEPT !.auth = authReducer(auth, SessionExpired),
                                             !.interval = NoInterval]), e)
          ELSE Becomes(MaxInFlight, [Cur EXCEPT !.interval.due = now + WATCH_MS], e)
  /\ UNCHANGED <<now, mounted>>

\* OnboardingStep1Screen: validateNode reached the node, onContinue
OnboardingContinue(k, n) ==
  /\ mounted /\ Rendered = "step1"
  /\ Becomes(k, Committed([Cur EXCEPT !.pending = n]), NoEvent)
  /\ UNCHANGED <<now, mounted>>

\* OnboardingStep2Screen: onBack
OnboardingBack(k) ==
  /\ mounted /\ Rendered = "step2"
  /\ Becomes(k, Committed([Cur EXCEPT !.pending = ""]), NoEvent)
  /\ UNCHANGED <<now, mounted>>

\* OnboardingStep2Screen: handleSignIn up to the request of apiKeyAuth
SignIn(k) ==
  /\ mounted /\ Rendered = "step2" /\ ~Busy("signin") /\ Room(k)
  /\ LET url == setBaseUrl(nodeIdentifierToUrl(pending))
         op  == [Op("signin", "authn", NoToken, pending) EXCEPT
                   !.node = NodeOfUrl(url), !.prev = baseUrlC, !.over = TRUE]
     IN Becomes(k, [Cur EXCEPT !.base = url, !.ops = Append(ops, op)], NoEvent)
  /\ UNCHANGED <<now, mounted>>

\* ReAuthModal: handleReconnect up to the request of apiKeyAuth
Reconnect(k) ==
  /\ mounted /\ Rendered = "reauth" /\ ~Busy("reconnect") /\ Room(k)
  /\ LET over == TruthyStr(auth.baseUrl)
         url  == IF over THEN setBaseUrl(auth.baseUrl) ELSE baseUrlC
         op   == [Op("reconnect", "authn", NoToken, "") EXCEPT
                    !.node = NodeOfUrl(url), !.prev = baseUrlC, !.over = over]
     IN /\ url # ""
        /\ Becomes(k, [Cur EXCEPT !.base = url, !.ops = Append(ops, op)], NoEvent)
  /\ UNCHANGED <<now, mounted>>

\* the node answers POST /:/auth/authn: apiKeyAuth's finally, then the
\* caller's continuation
AuthRespond(k, i, status) ==
  /\ ops[i].kind \in AuthKinds
  /\ status = "ok" => issued < MaxTokens
  /\ LET op == ops[i]
         r  == Proceed(op, status, baseUrlC)
         s  == [Cur EXCEPT !.base = IF op.over THEN op.prev ELSE baseUrlC,
                           !.ops = RemoveAt(ops, i)]
         f  == Finish(s, r.op, r.outcome, now + Lifetime(op.node))
         e  == [NoEvent EXCEPT !.ev = "resp", !.kind = op.kind, !.stage = op.stage,
                               !.status = status, !.outcome = r.outcome,
                               !.held = auth.token,
                               !.token = IF status = "ok" THEN [node |-> op.node, k |-> issued + 1]
                                                          ELSE NoToken]
     IN Becomes(k, Committed(f), e)
  /\ UNCHANGED <<now, mounted>>

\* the node (or the network) answers the request an authenticated call
\* waits on
ApiAnswered(i, status) ==
  LET op == ops[i]
      r  == Proceed(op, status, baseUrlC)
      w  == ServerEffect(op, status, wallet)
      e  == [NoEvent EXCEPT !.ev = "resp", !.kind = op.kind, !.stage = op.stage,
                            !.status = status, !.outcome = r.outcome,
                            !.saw401 = r.op.saw401, !.token = op.token,
                            !.held = auth.token, !.alive = op.alive]
  IN IF r.done
       THEN [s |-> Committed(Finish([Cur EXCEPT !.ops = RemoveAt(ops, i), !.wallet = w],
                                    r.op, r.outcome, NoNumber)),
             e |-> e]
       ELSE [s |-> [Cur EXCEPT !.ops[i] = r.op, !.wallet = w,
                               !.req = [token |-> op.token, node |-> r.op.node,
                                        base |-> auth.baseUrl]],
             e |-> e]

ApiRespond(k, i, status) ==
  /\ ops[i].kind \in ApiKinds
  /\ status \in Answers(ops[i])
  /\ Becomes(k, ApiAnswered(i, status).s, ApiAnswered(i, status).e)
  /\ UNCHANGED <<now, mounted>>

\* a logout that leaves the activity timestamp in localStorage
LoggedOutKeepsActivity(s) ==
  [s EXCEPT !.stored = [s.stored EXCEPT !.token = NoToken, !.expires = NoNumber],
            !.auth = authReducer(s.auth, LogoutAction)]

\* logout(): the three removeItem calls, then dispatch LOGOUT
LoggedOut(s) ==
  [s EXCEPT !.stored = [s.stored EXCEPT !.token = NoToken, !.expires = NoNumber,
                                        !.activity = NoNumber],
            !.auth = authReducer(s.auth, LogoutAction)]

\* AccountScreen's handleSignOut, or "Sign out instead" of the ReAuthModal
Logout(k) ==
  /\ mounted /\ Rendered \in {"account", "reauth"}
  /\ Becomes(k, Committed(LoggedOut(Cur)),
             [NoEvent EXCEPT !.ev = "logout", !.held = auth.token])
  /\ UNCHANGED <<now, mounted>>

\* AppInner's navigate: the tab bar, the buttons of the dashboard, a
\* credential of the list, the back buttons
Navigate(k, view, id) ==
  /\ mounted /\ Rendered \in ViewNames /\ view # Rendered
  /\ Rendered # "dashboard" => view = "dashboard"
  /\ IF view = "detail"
       THEN \E i \in DOMAIN credentials : credentials[i].id = id
       ELSE id = ""
  /\ Becomes(k, Committed([Cur EXCEPT !.view = view, !.selected = id]), NoEvent)
  /\ UNCHANGED <<now, mounted>>

\* fetchCredentials called on a mounted dashboard
FetchStarted(reset) ==
  LET s == [Cur EXCEPT !.shown = IF reset THEN <<>> ELSE credentials,
                       !.error = FALSE, !.fallback = FALSE]
  IN Committed(Launch(s, Op("fetch", "stored", auth.token, "")))

StartFetch(k, reset) == Becomes(k, FetchStarted(reset), NoEvent)

\* DashboardScreen: the 15 s poll, or the tab becoming visible again
Poll(k) ==
  /\ mounted /\ Rendered = "dashboard" /\ Room(k)
  /\ StartFetch(k, FALSE)
  /\ UNCHANGED <<now, mounted>>

\* DashboardScreen: pageshow from the back-forward cache, or the tab
\* becoming visible after a long absence
PageShow(k) ==
  /\ mounted /\ Rendered = "dashboard" /\ Room(k)
  /\ StartFetch(k, TRUE)
  /\ UNCHANGED <<now, mounted>>

\* CredentialDetailScreen: handleDelete up to the request of deleteCredential
DeleteStart(k) ==
  /\ mounted /\ Rendered = "detail" /\ ~Busy("delete") /\ Room(k)
  /\ Becomes(k, Committed(Launch(Cur, Op("delete", "delete", auth.token, selected))), NoEvent)
  /\ UNCHANGED <<now, mounted>>

\* ReceiveScreen: processOfferUri up to the request of fetchKeys
ReceiveStart ==
  /\ mounted /\ Rendered = "receive" /\ ~Busy("receive") /\ Room(MaxInFlight)
  /\ Becomes(MaxInFlight, Committed(Launch(Cur, Op("receive", "keys", auth.token, ""))), NoEvent)
  /\ UNCHANGED <<now, mounted>>

\* PresentScreen: processPresentUri up to the request of previewPresentation
\* (from the scan stage, to which "Try again" of the error stage returns)
PreviewStart ==
  /\ mounted /\ Rendered = "present" /\ present \in {"scan", "error"}
  /\ ~Busy("preview") /\ Room(MaxInFlight)
  /\ Becomes(MaxInFlight, Committed(Launch([Cur EXCEPT !.present = "loading"],
                              Op("preview", "first", auth.token, ""))), NoEvent)
  /\ UNCHANGED <<now, mounted>>

\* PresentScreen: handleShare up to the request of respondPresentation
Share ==
  /\ mounted /\ Rendered = "present" /\ present \in {"consent", "consentSkipped"}
  /\ ~Busy("respond") /\ Room(MaxInFlight)
  /\ Becomes(MaxInFlight, Committed(Launch([Cur EXCEPT !.present = "presenting"],
                              Op("respond", "first", auth.token,
                                 IF present = "consentSkipped" THEN "skip" ELSE ""))),
             NoEvent)
  /\ UNCHANGED <<now, mounted>>

\* AccountScreen: handleClearCredentials
ClearCredentials ==
  /\ mounted /\ Rendered = "account"
  /\ Becomes(MaxInFlight, Committed([Cur EXCEPT !.item = clearLocalCredentials(credItem),
                                   !.view = "dashboard", !.selected = ""]), NoEvent)
  /\ UNCHANGED <<now, mounted>>

\* a node stops accepting a token it issued
Invalidate(k, token) ==
  /\ token \in TokensOf(Cur) \ dead
  /\ Becomes(k, [Cur EXCEPT !.dead = dead \cup {token}], NoEvent)
  /\ UNCHANGED <<now, mounted>>

\* the page is left: the AuthProvider unmounts, the cleanup of the expiry
\* watch runs, the state of every component and of the client module is
\* gone and the calls in flight are abandoned; the session storage is gone
\* too when the tab is closed
Unmount(tabClosed) ==
  /\ mounted
  /\ mounted' = FALSE
  /\ Becomes(MaxInFlight, [Cur EXCEPT !.auth = EmptyAuth, !.interval = NoInterval, !.base = "",
                         !.view = "dashboard", !.selected = "", !.pending = "",
                         !.shown = <<>>, !.fallback = FALSE, !.error = FALSE,
                         !.present = "scan", !.ops = <<>>,
                         !.stored = IF tabClosed
                                      THEN [stored EXCEPT !.token = NoToken,
                                                          !.expires = NoNumber]
                                      ELSE stored],
             [NoEvent EXCEPT !.ev = "unmount", !.token = interval.token,
                             !.held = auth.token])
  /\ UNCHANGED now

\* the page is loaded again: the AuthProvider mounts with initState and the
\* effects run for the first time
Load ==
  /\ ~mounted
  /\ mounted' = TRUE
  /\ LET init == initState(stored, now)
     IN Becomes(MaxInFlight, Commit([Cur EXCEPT !.auth = init.state, !.base = init.prime],
                       EmptyAuth, "dashboard", "", now),
                [NoEvent EXCEPT !.ev = "load", !.held = init.state.token])
  /\ UNCHANGED now

\* a first visit: nothing stored, nothing in flight
Init ==
  /\ now = 0
  /\ mounted = TRUE
  /\ dead = {}
  /\ issued = 0
  /\ auth = EmptyAuth
  /\ stored = EmptyStorage
  /\ baseUrlC = ""
  /\ interval = NoInterval
  /\ currentView = "dashboard"
  /\ selected = ""
  /\ pending = ""
  /\ usingLocalFallback = FALSE
  /\ fetchError = FALSE
  /\ ops = <<>>
  /\ credItem = NoItem
  /\ credentials = <<>>
  /\ serverCreds = <<>>
  /\ call = NoCall
  /\ wallet \in {<<>>, <<Entry1>>}
  /\ present = "scan"
  /\ last = NoEvent

Next ==
  \/ AdvanceClock
  \/ Tick
  \/ \E n \in NodeIds : OnboardingContinue(MaxInFlight, n)
  \/ OnboardingBack(MaxInFlight)
  \/ SignIn(MaxInFlight)
  \/ Reconnect(MaxInFlight)
  \/ \E i \in DOMAIN ops : \E status \in {"ok", "401", "net"} :
       AuthRespond(MaxInFlight, i, status)
  \/ \E i \in DOMAIN ops : \E status \in {"ok", "401", "net"} :
       ApiRespond(MaxInFlight, i, status)
  \/ Logout(MaxInFlight)
  \/ \E view \in ViewNames : \E id \in {""} \cup {credentials[i].id : i \in DOMAIN credentials} :
       Navigate(MaxInFlight, view, id)
  \/ Poll(MaxInFlight)
  \/ PageShow(MaxInFlight)
  \/ DeleteStart(MaxInFlight)
  \/ ReceiveStart
  \/ PreviewStart
  \/ Share
  \/ ClearCredentials
  \/ \E token \in TokensOf(Cur) : Invalidate(MaxInFlight, token)
  \/ \E tabClosed \in BOOLEAN : Unmount(tabClosed)
  \/ Load

Spec == Init /\ [][Next]_vars

(***************************************************************************)
(* The reconciliation on its own.  It starts from any cache the receive    *)
(* flow and earlier reconciliations leave (received credentials, cached    *)
(* stubs) and any list discovery can resolve with, and reconciles          *)
(* repeatedly.                                                             *)
(***************************************************************************)
CachePool ==
  LocalPool \cup {StringifyCred(StubCredential(Candidate(e), 150)) : e \in WalletEntries}

MergeInit ==
  /\ credItem \in {NoItem} \cup {Item(JSONstringify(l)) : l \in ListsOver(CachePool)}
  /\ credentials = <<>>
  /\ serverCreds \in ListsOver(ServerPool)
  /\ call = NoCall
  /\ now = 0
  /\ mounted = TRUE
  /\ dead = {}
  /\ issued = 0
  /\ auth = EmptyAuth
  /\ stored = EmptyStorage
  /\ baseUrlC = ""
  /\ interval = NoInterval
  /\ currentView = "dashboard"
  /\ selected = ""
  /\ pending = ""
  /\ usingLocalFallback = FALSE
  /\ fetchError = FALSE
  /\ ops = <<>>
  /\ wallet = <<>>
  /\ present = "scan"
  /\ last = NoEvent

\* a direct call of mergeWithLocalCredentials(serverCreds)
Reconcile ==
  LET r == mergeWithLocalCredentials(credItem, serverCreds)
  IN /\ credItem' = r.item
     /\ call' = [op |-> "merge", before |-> credItem, server |-> serverCreds, ret |-> r.ret,
                 prevOp |-> call.op, prevRet |-> call.ret]
     /\ UNCHANGED <<credentials, serverCreds, sessionVars>>

\* the dashboard's fetch cycle reconciling the discovered list
FetchReconcile ==
  LET r == ApplyServerCreds(credItem, serverCreds)
  IN /\ credItem' = r.item
     /\ credentials' = r.shown
     /\ call' = [op |-> "fetch", before |-> credItem, server |-> serverCreds, ret |-> r.shown,
                 prevOp |-> call.op, prevRet |-> call.ret]
     /\ UNCHANGED <<serverCreds, sessionVars>>

MergeNext == Reconcile \/ FetchReconcile

SpecMerge == MergeInit /\ [][MergeNext]_vars

(***************************************************************************)
(* Properties of the reconciliation (checked under SpecMerge).             *)
(***************************************************************************)
LocalBefore == getLocalCredentials(call.before)

Reconciled == call.op # "none" /\ Len(call.server) > 0

\* a key the object has with a value other than undefined
Supplies(c, f) == f \in DOMAIN c /\ (f \in {"type", "_credentialIndex"} \/ c[f] # Undef)

\* the two objects hold the same value under key f (a key that is absent
\* and a key that is undefined are the same data)
SameField(a, b, f) ==
  /\ Supplies(a, f) <=> Supplies(b, f)
  /\ Supplies(a, f) => a[f] = b[f]

SameCredentialData(a, b) == \A f \in DOMAIN a \cup DOMAIN b : SameField(a, b, f)

SameData(l1, l2) ==
  /\ Len(l1) = Len(l2)
  /\ \A i \in DOMAIN l1 : SameCredentialData(l1[i], l2[i])

\* the wallet entry a credential object denotes: by its server id or by the
\* id of the stub discovery builds for it
DenotedEntries(c) ==
  {e \in WalletEntries : c.id \in {e.id, StubId(e.type[1], e.index)}}

SameCredential(a, b) ==
  a.id = b.id \/ DenotedEntries(a) \cap DenotedEntries(b) # {}

\* C2: a credential whose namespaces are in the local cache and which the
\* server still reports without field data keeps its namespaces in the
\* merged result and in the rewritten cache.
C2_NamespacesSurvive ==
  Reconciled =>
    \A i \in DOMAIN LocalBefore : \A j \in DOMAIN call.server :
      ( /\ Supplies(LocalBefore[i], "namespaces")
        /\ SameCredential(LocalBefore[i], call.server[j])
        /\ ~Supplies(call.server[j], "namespaces") )
      => /\ Get(call.ret[j], "namespaces") = LocalBefore[i].namespaces
         /\ Get(getLocalCredentials(credItem)[j], "namespaces") = LocalBefore[i].namespaces

\* the local entry the specification's rules select for a server entry:
\* identical id, else identical docType, else overlapping type tags and
\* identical issuer (0: none)
Tags(c) == IF "type" \in DOMAIN c THEN {c.type[k] : k \in DOMAIN c.type} ELSE {}

MatchByRules(local, s) ==
  LET byId   == FindIndex(local, LAMBDA lc : lc.id = s.id)
      byDoc  == FindIndex(local, LAMBDA lc :
                  Supplies(lc, "docType") /\ Supplies(s, "docType") /\ lc.docType = s.docType)
      byType == FindIndex(local, LAMBDA lc :
                  /\ Tags(lc) \cap Tags(s) # {}
                  /\ Supplies(lc, "issuer") /\ Supplies(s, "issuer") /\ lc.issuer = s.issuer)
  IN IF byId # 0 THEN byId ELSE IF byDoc # 0 THEN byDoc ELSE byType

\* C7: each server entry is merged with the local entry selected by id,
\* else by docType, else by type overlap and issuer; only when no rule
\* matches is the server entry taken as it is.
C7_MatchPrecedence ==
  (call.op = "merge" /\ Len(call.server) > 0) =>
    \A j \in DOMAIN call.server :
      LET m == MatchByRules(LocalBefore, call.server[j])
      IN call.ret[j] = IF m # 0 THEN MergeEntry(LocalBefore[m], call.server[j])
                                ELSE call.server[j]

\* C8 as stated: for a matched pair every field the server supplies has the
\* server's value in the merged entry, every other field the local value.
C8_EveryServerFieldWins ==
  (call.op = "merge" /\ Len(call.server) > 0) =>
    \A j \in DOMAIN call.server :
      LET m == FindLocalMatch(LocalBefore, call.server[j])
      IN m # 0 =>
           \A f \in DOMAIN LocalBefore[m] \cup DOMAIN call.server[j] :
             IF Supplies(call.server[j], f)
               THEN SameField(call.ret[j], call.server[j], f)
               ELSE SameField(call.ret[j], LocalBefore[m], f)

\* the entry the specification's example pair merges to
ExampleMerged ==
  [id |-> "X", issuer |-> "I2", status |-> "revoked", namespaces |-> "a:1",
   displayMetadata |-> "label:L"]

\* C8 amended: for a matched pair the fields id, issuanceDate,
\* expirationDate, status, _availableClaims, namespaces and displayMetadata
\* have the server's value where the server supplies one and the local
\* value otherwise; issuer has the server's value when that is a non-empty
\* string and the local value otherwise; every other field (type, docType,
\* ...) keeps the local value.  The specification's example pair merges to
\* exactly its five fields.
C8_MergePrecedence ==
  (call.op = "merge" /\ Len(call.server) > 0) =>
    \A j \in DOMAIN call.server :
      LET m == FindLocalMatch(LocalBefore, call.server[j])
          s == call.server[j]
      IN m # 0 =>
           /\ \A f \in DOMAIN LocalBefore[m] \cup DOMAIN s \cup DOMAIN call.ret[j] :
                IF \/ (f \in MergedKeys \ {"issuer"} /\ Supplies(s, f))
                   \/ (f = "issuer" /\ Supplies(s, f) /\ s[f] # "")
                  THEN SameField(call.ret[j], s, f)
                  ELSE SameField(call.ret[j], LocalBefore[m], f)
           /\ (LocalBefore[m] = ExampleLocal /\ s = ExampleServer)
                => StringifyCred(call.ret[j]) = ExampleMerged

C8_Witness ==
  /\ call.op = "merge"
  /\ \E j \in DOMAIN call.server :
       /\ call.server[j] = ExampleServer
       /\ FindLocalMatch(LocalBefore, ExampleServer) # 0
       /\ StringifyCred(call.ret[j]) = ExampleMerged

\* C9: an empty server list against a non-empty cache has one outcome (the
\* list handed back and the cache left behind), the same on every code path
\* that handles an empty server list.
EmptyServerOutcomes(item) ==
  { [ret  |-> mergeWithLocalCredentials(item, <<>>).ret,
     item |-> mergeWithLocalCredentials(item, <<>>).item],
    [ret  |-> ApplyServerCreds(item, <<>>).shown,
     item |-> ApplyServerCreds(item, <<>>).item] }

C9_EmptyServerOneOutcome ==
  (call.op # "none" /\ Len(call.server) = 0 /\ Len(LocalBefore) > 0) =>
    \A o \in EmptyServerOutcomes(call.before) : call.ret = o.ret /\ credItem = o.item

\* C10: after mergeWithLocalCredentials returns, the cache read back holds
\* the same data as the list returned.
C10_CacheEqualsReturned ==
  call.op = "merge" => SameData(getLocalCredentials(credItem), call.ret)

C10_Witness ==
  /\ call.op = "merge"
  /\ \E j \in DOMAIN call.server :
       /\ FindLocalMatch(LocalBefore, call.server[j]) # 0
       /\ call.ret[j] # call.server[j]
       /\ \E f \in DOMAIN call.ret[j] : ~Supplies(call.ret[j], f)
  /\ getLocalCredentials(credItem) # LocalBefore

\* C11: reconciling the same server list twice in a row, with no local
\* change in between, returns the same merged output both times (the same
\* serialised text).
C11_ReconcileTwiceIdentical ==
  (call.op = "merge" /\ call.prevOp = "merge") =>
    JSONstringify(call.ret) = JSONstringify(call.prevRet)

\* a second reconciliation in a row whose output carries local data
C11_Witness ==
  /\ call.op = "merge" /\ call.prevOp = "merge"
  /\ \E j \in DOMAIN call.server :
       /\ FindLocalMatch(LocalBefore, call.server[j]) # 0
       /\ StringifyCred(call.ret[j]) # StringifyCred(call.server[j])

(***************************************************************************)
(* Properties of the session, the client and the fetch cycle (checked      *)
(* under Spec).  `last` is what the step just taken observed.              *)
(***************************************************************************)
FetchCycleEnded == last.ev = "resp" /\ last.kind = "fetch" /\ last.outcome # ""

\* C1: a credential fetch cycle one of whose requests to the server was
\* rejected with HTTP 401 ends with the session Expired and without the
\* locally cached credentials being shown.
C1_AuthFailurePropagates ==
  (FetchCycleEnded /\ last.saw401) =>
    /\ last.outcome = "expired"
    /\ Expired(auth)
    /\ ~usingLocalFallback

\* C3: a check of the expiry watch for a token with expiresAt = T leaves the
\* session Expired when it is performed at now >= T - 300000 and leaves it
\* Authenticated with that token when it is performed at now < T - 300000.
C3_ExpiryBoundary ==
  last.ev = "tick" =>
    IF now >= last.exp - EXPIRY_WINDOW_MS
      THEN Expired(auth)
      ELSE Authenticated(auth) /\ auth.token = last.token /\ auth.expiresAt = last.exp

\* a check performed exactly at T - 300000 expired the session
C3_Witness ==
  /\ last.ev = "tick"
  /\ last.held # NoToken
  /\ now = last.exp - EXPIRY_WINDOW_MS
  /\ Expired(auth)

\* C4: an authenticated request issued with the token of the session goes to
\* the base URL of the session's node: the client was primed with it before.
C4_PrimedBeforeRequest ==
  (last.req.token # NoToken /\ last.req.token = auth.token /\ TruthyStr(auth.baseUrl)) =>
    nodeIdentifierToUrl(last.req.node) = auth.baseUrl

\* C5: an authenticated call answered with HTTP 401 while the session is
\* Authenticated leaves the session Expired.
C5_Every401Expires ==
  (last.ev = "resp" /\ last.kind \in ApiKinds /\ last.status = "401" /\ last.held # NoToken) =>
    Expired(auth)

\* C6: the expiry watch is armed only while the provider is mounted, and for
\* the token and expiry the session holds; its callback only ever runs
\* against the token held at that moment.
C6_WatchAgainstCurrentToken ==
  /\ interval.armed =>
       /\ mounted
       /\ auth.token # NoToken
       /\ interval.token = auth.token
       /\ interval.expiresAt = auth.expiresAt
  /\ last.ev = "tick" => (last.held # NoToken /\ last.token = last.held)

\* the watch expired a second token, armed after the first one was cleared
C6_Witness ==
  /\ last.ev = "tick"
  /\ last.outcome = "expired"
  /\ last.token.k > 1
  /\ last.token = last.held
  /\ ~interval.armed

\* a fetch cycle of the mounted dashboard ended on a failure none of whose
\* requests was rejected with HTTP 401
FellBackOffline ==
  /\ last.ev = "resp" /\ last.kind = "fetch" /\ last.outcome = "fallback"
  /\ ~last.saw401 /\ last.alive

\* C12: a fetch cycle that fails for a non-authentication reason leaves the
\* local cache as it was and attempts no merge; the dashboard shows the cache
\* contents with the offline signal when the cache is non-empty, and the
\* fetch error when it is empty.
C12_OfflineFallback ==
  [][FellBackOffline' =>
       /\ credItem' = credItem
       /\ credentials' = getLocalCredentials(credItem)
       /\ usingLocalFallback' = (Len(getLocalCredentials(credItem)) > 0)
       /\ fetchError' = (Len(getLocalCredentials(credItem)) = 0)]_vars

\* the cache was shown with the offline signal
C12_Witness ==
  /\ FellBackOffline
  /\ Len(credentials) > 0
  /\ credentials = getLocalCredentials(credItem)
  /\ usingLocalFallback /\ ~fetchError

(***************************************************************************)
(* The dashboard's overlapping fetch cycles.  The session has just been    *)
(* established on node n1 (the dashboard mounted and started its first     *)
(* cycle); the poll, visibilitychange and pageshow start further cycles    *)
(* while earlier ones are in flight.  The node's wallet and the token stay *)
(* as they are; any request may fail on the network.                       *)
(***************************************************************************)
\* the state the commit of onSuccess leaves: setNode, setToken, the
\* dashboard mounted
JustSignedIn(item, w) ==
  LET idle == [auth |-> EmptyAuth, stored |-> EmptyStorage, base |-> "",
               interval |-> NoInterval, view |-> "dashboard", selected |-> "",
               pending |-> "n1", fallback |-> FALSE, error |-> FALSE, ops |-> <<>>,
               item |-> item, shown |-> <<>>, wallet |-> w, present |-> "scan",
               issued |-> 0, dead |-> {}, req |-> NoRequest]
      op   == [Op("signin", "authn", NoToken, "n1") EXCEPT !.node = "n1", !.over = TRUE]
  IN Commit(Finish(idle, op, "token", Lifetime("n1")), EmptyAuth, "dashboard", "n1", 0)

OverlapInit ==
  /\ now = 0
  /\ mounted = TRUE
  /\ serverCreds = <<>>
  /\ call = NoCall
  /\ last = NoEvent
  /\ \E item \in {NoItem, saveLocalCredential(NoItem, ReceivedCredential(Entry1))} :
     \E w \in {<<>>, <<Entry1>>} :
       LET s == JustSignedIn(item, w)
       IN /\ auth = s.auth
          /\ stored = s.stored
          /\ baseUrlC = s.base
          /\ interval = s.interval
          /\ currentView = s.view
          /\ selected = s.selected
          /\ pending = s.pending
          /\ usingLocalFallback = s.fallback
          /\ fetchError = s.error
          /\ ops = s.ops
          /\ credItem = s.item
          /\ credentials = s.shown
          /\ wallet = s.wallet
          /\ present = s.present
          /\ issued = s.issued
          /\ dead = s.dead

\* the 15 s poll, or the tab becoming visible, while cycles are in flight
OverlapPoll ==
  /\ Rendered = "dashboard" /\ Len(ops) < MaxOverlap
  /\ Assign(FetchStarted(FALSE), NoEvent)
  /\ UNCHANGED <<now, mounted>>

\* pageshow, or the tab becoming visible after a long absence
OverlapPageShow ==
  /\ Rendered = "dashboard" /\ Len(ops) < MaxOverlap
  /\ Assign(FetchStarted(TRUE), NoEvent)
  /\ UNCHANGED <<now, mounted>>

\* a request of one of the cycles in flight is answered
OverlapRespond(i, status) ==
  /\ ops[i].kind = "fetch"
  /\ status \in Answers(ops[i])
  /\ Assign(ApiAnswered(i, status).s, ApiAnswered(i, status).e)
  /\ UNCHANGED <<now, mounted>>

OverlapNext ==
  \/ OverlapPoll
  \/ OverlapPageShow
  \/ \E i \in DOMAIN ops : \E status \in {"ok", "net"} : OverlapRespond(i, status)

SpecOverlap == OverlapInit /\ [][OverlapNext]_vars

\* the answer completes the cycle ops[i] of state s
Completes(s, i, status) == Proceed(s.ops[i], status, s.base).done

\* the state after that answer
Completed(s, i, status) ==
  LET r == Proceed(s.ops[i], status, s.base)
  IN Commit(Finish([s EXCEPT !.ops = RemoveAt(s.ops, i)], r.op, r.outcome, NoNumber),
            s.auth, s.view, s.pending, now)

\* C13: when two fetch cycles of the mounted dashboard are in flight and
\* each is about to complete, the list displayed and the local cache after
\* both have completed are the same whichever completes first.
C13_CompletionOrder ==
  (Len(ops) = 2 /\ ops[1].alive /\ ops[2].alive) =>
    \A s1 \in Answers(ops[1]) : \A s2 \in Answers(ops[2]) :
      (Completes(Cur, 1, s1) /\ Completes(Cur, 2, s2)) =>
        LET a == Completed(Completed(Cur, 1, s1), 1, s2)
            b == Completed(Completed(Cur, 2, s2), 1, s1)
        IN SameData(a.shown, b.shown) /\ a.item = b.item

(***************************************************************************)
(* The session manager on its own: the AuthProvider with the operations it *)
(* hands to its consumers through useAuth(), its three effects, the expiry *)
(* watch and the restore at startup.  Time moves between the instants at   *)
(* which the expiry window, the restore guard and the inactivity window    *)
(* open and close.                                                         *)
(***************************************************************************)
\* a token lifetime that outlasts the inactivity window
LongLifetime == INACTIVITY_MS + RESTORE_GUARD_MS + 2

\* the expiry of an AuthResponse relative to the local clock: that of a
\* token of node n1, of a long-lived token, and of a token that the local
\* clock (which is not compensated for skew) already takes for expired
SessLifetimes == {Lifetime("n1"), LongLifetime, 0 - 1}

\* the provider first mounts at Start
Start0 == WATCH_MS

Instants ==
  {Start0, Start0 + WATCH_MS,
   Start0 + Lifetime("n1") - RESTORE_GUARD_MS - 1,
   Start0 + Lifetime("n1") - RESTORE_GUARD_MS,
   Start0 + Lifetime("n1") - (RESTORE_GUARD_MS \div 2),
   Start0 + INACTIVITY_MS - 1,
   Start0 + INACTIVITY_MS,
   Start0 + INACTIVITY_MS + 1}

\* the three effects of the AuthProvider after a render with state s.auth
\* (a0: the state of the previous render)
ProviderCommit(s, a0, t) ==
  [s EXCEPT !.base     = EffectBaseUrl(a0, s.auth, s.base),
            !.stored   = EffectPersist(a0, s.auth, s.stored, t),
            !.interval = EffectWatch(a0, s.auth, s.interval, t)]

SessInit ==
  /\ now = Start0
  /\ mounted = TRUE
  /\ dead = {}
  /\ issued = 0
  /\ auth = EmptyAuth
  /\ stored = EmptyStorage
  /\ baseUrlC = ""
  /\ interval = NoInterval
  /\ currentView = "dashboard"
  /\ selected = ""
  /\ pending = ""
  /\ usingLocalFallback = FALSE
  /\ fetchError = FALSE
  /\ ops = <<>>
  /\ credItem = NoItem
  /\ credentials = <<>>
  /\ serverCreds = <<>>
  /\ call = NoCall
  /\ wallet = <<>>
  /\ present = "scan"
  /\ last = NoEvent

\* onSuccess of onboarding step 2: setNode(n, url), setToken(token, expiresAt)
SessSignedIn(n, life) ==
  /\ mounted /\ issued < MaxTokens
  /\ LET token == [node |-> n, k |-> issued + 1]
         s == [Cur EXCEPT !.auth = SignedIn(auth, Op("signin", "authn", NoToken, n),
                                            token, now + life),
                          !.issued = issued + 1]
     IN Assign(ProviderCommit(s, auth, now),
               [NoEvent EXCEPT !.ev = "setToken", !.token = token, !.held = auth.token,
                               !.exp = now + life])
  /\ UNCHANGED <<now, mounted>>

\* handleReconnect: setToken(token, expiresAt) on the node of the session
SessReconnected(life) ==
  /\ mounted /\ issued < MaxTokens /\ TruthyStr(auth.nodeIdentifier)
  /\ LET token == [node |-> auth.nodeIdentifier, k |-> issued + 1]
         s == [Cur EXCEPT !.auth = SignedIn(auth, Op("reconnect", "authn", NoToken, ""),
                                            token, now + life),
                          !.issued = issued + 1]
     IN Assign(ProviderCommit(s, auth, now),
               [NoEvent EXCEPT !.ev = "setToken", !.token = token, !.held = auth.token,
                               !.exp = now + life])
  /\ UNCHANGED <<now, mounted>>

\* setNode(n, url) called by a consumer
SessSetNode(n) ==
  /\ mounted
  /\ LET s == [Cur EXCEPT !.auth = authReducer(auth, SetNode(n, nodeIdentifierToUrl(n)))]
     IN Assign(ProviderCommit(s, auth, now),
               [NoEvent EXCEPT !.ev = "setNode", !.held = auth.token, !.stage = n,
                               !.status = auth.nodeIdentifier])
  /\ UNCHANGED <<now, mounted>>

\* markExpired() called by a consumer
SessMarkExpired ==
  /\ mounted
  /\ Assign(ProviderCommit([Cur EXCEPT !.auth = authReducer(auth, SessionExpired)], auth, now),
            [NoEvent EXCEPT !.ev = "markExpired", !.held = auth.token])
  /\ UNCHANGED <<now, mounted>>

\* logout() called by a consumer
SessLogout ==
  /\ mounted
  /\ Assign(ProviderCommit(LoggedOut(Cur), auth, now),
            [NoEvent EXCEPT !.ev = "logout", !.held = auth.token])
  /\ UNCHANGED <<now, mounted>>

\* time passes to a later instant
SessElapse(t) ==
  /\ t > now
  /\ now' = t
  /\ Assign(Cur, NoEvent)
  /\ UNCHANGED mounted

\* the page is loaded: useReducer(authReducer, undefined, initState), then
\* the effects run for the first time
SessLoad ==
  /\ ~mounted
  /\ mounted' = TRUE
  /\ LET init == initState(stored, now)
     IN Assign(ProviderCommit([Cur EXCEPT !.auth = init.state, !.base = init.prime],
                              EmptyAuth, now),
               [NoEvent EXCEPT !.ev = "load", !.held = init.state.token,
                               !.token = stored.token, !.exp = stored.expires,
                               !.activity = stored.activity])
  /\ UNCHANGED now

SessNext ==
  \/ \E n \in NodeIds : \E life \in SessLifetimes : SessSignedIn(n, life)
  \/ \E life \in SessLifetimes : SessReconnected(life)
  \/ \E n \in NodeIds : SessSetNode(n)
  \/ SessMarkExpired
  \/ SessLogout
  \/ \E t \in Instants : SessElapse(t)
  \/ Tick
  \/ \E tabClosed \in BOOLEAN : Unmount(tabClosed)
  \/ SessLoad

SpecSession == SessInit /\ [][SessNext]_vars

(***************************************************************************)
(* Properties of the session manager (checked under SpecSession, C16 under *)
(* Spec).                                                                  *)
(***************************************************************************)
\* C14: whenever the session holds a token its expiresAt is set, and at the
\* moment the token was set (by setToken or by the restore) that expiresAt
\* was in the future.
C14_TokenHasFutureExpiry ==
  /\ auth.token # NoToken => TruthyNum(auth.expiresAt)
  /\ (last.ev \in {"setToken", "load"} /\ auth.token # NoToken) => auth.expiresAt > now

\* C15: when setNode switches the session to another node while a token is
\* held, the session no longer holds that token afterwards.
C15_NodeSwitchDropsToken ==
  (last.ev = "setNode" /\ last.held # NoToken /\ last.stage # last.status) =>
    auth.token # last.held

\* the statement about the stored record after a logout
LogoutCleared(before, after) ==
  /\ after.token = NoToken
  /\ after.expires = NoNumber
  /\ after.activity = NoNumber
  /\ after.nodeId = before.nodeId

\* C18: after logout() the token and the expiry are gone from
\* sessionStorage and the activity timestamp from localStorage, and the
\* node identifier remembered in localStorage is the one that was there.
C18_LogoutStorage ==
  [][last'.ev = "logout" => LogoutCleared(stored, stored')]_vars

\* a logout of a persisted session: the node identifier is still readable
C18_Witness ==
  /\ last.ev = "logout" /\ last.held # NoToken
  /\ TruthyStr(stored.nodeId)
  /\ stored.token = NoToken /\ stored.expires = NoNumber /\ stored.activity = NoNumber

\* the stored record holds a token that the near-expiry guard lets pass at t
ValidStored(st, t) ==
  /\ st.token # NoToken /\ st.expires # NoNumber /\ TruthyStr(st.nodeId)
  /\ st.activity # NoNumber
  /\ t < st.expires - RESTORE_GUARD_MS

\* C19: with an otherwise valid stored token and expiry and the last
\* activity recorded at T0, the restore succeeds at T0 + 7 days - 1 ms and
\* gives Unauthenticated at T0 + 7 days + 1 ms.
C19_RestoreBoundary ==
  [][(last'.ev = "load" /\ ValidStored(stored, now)) =>
       /\ now = stored.activity + INACTIVITY_MS - 1 =>
            (Authenticated(auth') /\ auth'.token = stored.token
               /\ auth'.expiresAt = stored.expires)
       /\ now = stored.activity + INACTIVITY_MS + 1 => Unauthenticated(auth')]_vars

\* a restore 1 ms before the end of the inactivity window succeeded
C19_Witness ==
  /\ last.ev = "load"
  /\ last.activity # NoNumber /\ now = last.activity + INACTIVITY_MS - 1
  /\ Authenticated(auth) /\ auth.token = last.token

\* C20: the restore gives Unauthenticated whenever the stored token is
\* within the 60-second guard (now >= expiresAt - 60000), although the
\* inactivity window is satisfied.
C20_NearExpiryRejected ==
  [][(last'.ev = "load" /\ stored.token # NoToken /\ stored.expires # NoNumber
        /\ isWithinActivityWindow(stored, now)
        /\ now >= stored.expires - RESTORE_GUARD_MS) =>
       Unauthenticated(auth')]_vars

\* a restore 30 s before the expiry of the stored token was rejected
C20_Witness ==
  /\ last.ev = "load"
  /\ last.token # NoToken /\ last.exp = now + (RESTORE_GUARD_MS \div 2)
  /\ last.activity # NoNumber /\ now - last.activity < INACTIVITY_MS
  /\ Unauthenticated(auth)

\* C16: the client's base URL is cleared at logout, and no request is
\* issued to a node while the session is Unauthenticated.
C16_BaseUrlClearedAtLogout ==
  /\ last.ev = "logout" => baseUrlC = ""
  /\ (mounted /\ Unauthenticated(auth)) => last.req = NoRequest

(***************************************************************************)
(* Storage that fails.  The browser's storage either works, or refuses     *)
(* every write (setItem throws, e.g. the quota is exceeded), or refuses    *)
(* every access (the storage is disabled: reads and removals throw too).   *)
(* Each handler that touches the storage is taken under each of these.     *)
(***************************************************************************)
StorageFaults == {"none", "quota", "denied"}

\* getLocalCredentials() lines 5-12: a throwing getItem is caught and gives []
getLocalCredentialsUnder(fault, item) ==
  IF fault = "denied" THEN <<>> ELSE getLocalCredentials(item)

\* whether lines 39-47 of fetchCredentials throw on the discovered list:
\* clearLocalCredentials removes the item, mergeWithLocalCredentials sets it
ApplyThrows(fault, list) ==
  IF Len(list) = 0 THEN fault = "denied" ELSE fault # "none"

\* fetchCredentials lines 37-61 once discovery resolved with list: a throw
\* of the storage lands in the catch like a failed request (it is no 401)
FetchUnder(fault, s, list) ==
  IF ApplyThrows(fault, list)
    THEN LET local == getLocalCredentialsUnder(fault, s.item)
         IN [s EXCEPT !.shown = local, !.fallback = Len(local) > 0,
                      !.error = Len(local) = 0]
    ELSE LET r == ApplyServerCreds(s.item, list)
         IN [s EXCEPT !.item = r.item, !.shown = r.shown,
                      !.fallback = FALSE, !.error = FALSE]

\* what the user is left with after the handler ran under the fault
FetchOutcome(fault, s, list) ==
  IF ~ApplyThrows(fault, list) THEN "done"
  ELSE IF Len(getLocalCredentialsUnder(fault, s.item)) > 0 THEN "offlineBadge"
  ELSE "errorShown"

StorageEvent(name, fault, outcome) ==
  [NoEvent EXCEPT !.ev = name, !.status = fault, !.outcome = outcome]

StorageInit ==
  /\ now = 0
  /\ mounted = TRUE
  /\ serverCreds \in {<<>>, <<ExampleServer>>, <<ExampleServer, RetypedServer>>}
  /\ call = NoCall
  /\ last = NoEvent
  /\ \E item \in {NoItem, Item(JSONstringify(<<ExampleLocal>>)),
                  Item(JSONstringify(<<ReceivedCredential(Entry1)>>))} :
       LET s == JustSignedIn(item, <<>>)
       IN /\ auth = s.auth
          /\ stored = s.stored
          /\ baseUrlC = s.base
          /\ interval = s.interval
          /\ currentView = s.view
          /\ selected = s.selected
          /\ pending = s.pending
          /\ usingLocalFallback = s.fallback
          /\ fetchError = s.error
          /\ ops = s.ops
          /\ credItem = s.item
          /\ credentials = s.shown
          /\ wallet = s.wallet
          /\ present = s.present
          /\ issued = s.issued
          /\ dead = s.dead

\* DashboardScreen: a fetch cycle whose discovery resolved with serverCreds
StorageFetch(fault) ==
  /\ Authenticated(auth) /\ currentView = "dashboard"
  /\ Assign(FetchUnder(fault, Cur, serverCreds),
            StorageEvent("fetch", fault, FetchOutcome(fault, Cur, serverCreds)))
  /\ UNCHANGED <<now, mounted>>

\* ReceiveScreen: processOfferUri from saveLocalCredential (line 155) on; a
\* throw lands in the catch (lines 158-168), which shows the error stage
StorageReceive(fault) ==
  /\ Authenticated(auth) /\ currentView = "dashboard"
  /\ IF fault = "none"
       THEN Assign([Cur EXCEPT !.item = saveLocalCredential(credItem, ReceivedCredential(Entry1)),
                               !.view = "receive"],
                   StorageEvent("receive", fault, "done"))
       ELSE Assign([Cur EXCEPT !.view = "receive"],
                   StorageEvent("receive", fault, "errorShown"))
  /\ UNCHANGED <<now, mounted>>

\* the detail screen of a displayed credential: handleDelete from
\* deleteLocalCredential on; nothing catches a throw and onBack() is skipped
StorageDelete(fault, i) ==
  /\ Authenticated(auth) /\ currentView = "dashboard" /\ i \in DOMAIN credentials
  /\ IF fault = "none"
       THEN Assign([Cur EXCEPT !.item = deleteLocalCredential(credItem, credentials[i].id)],
                   StorageEvent("delete", fault, "done"))
       ELSE Assign([Cur EXCEPT !.view = "detail", !.selected = credentials[i].id],
                   StorageEvent("delete", fault, "uncaught"))
  /\ UNCHANGED <<now, mounted>>

\* AccountScreen: handleClearCredentials; removeItem throws when the storage
\* is disabled, nothing catches it and navigate('dashboard') is skipped
StorageClear(fault) ==
  /\ Authenticated(auth) /\ currentView = "dashboard"
  /\ IF fault # "denied"
       THEN Assign([Cur EXCEPT !.item = clearLocalCredentials(credItem)],
                   StorageEvent("clear", fault, "done"))
       ELSE Assign([Cur EXCEPT !.view = "account"],
                   StorageEvent("clear", fault, "uncaught"))
  /\ UNCHANGED <<now, mounted>>

\* back to the dashboard from another screen
StorageBack ==
  /\ currentView # "dashboard"
  /\ Assign([Cur EXCEPT !.view = "dashboard", !.selected = ""], NoEvent)
  /\ UNCHANGED <<now, mounted>>

\* handleReconnect: setToken, then the persist effect (lines 142-149), whose
\* try block swallows a throwing setItem
StoragePersist(fault) ==
  /\ Authenticated(auth) /\ issued < MaxTokens
  /\ LET token == [node |-> auth.nodeIdentifier, k |-> issued + 1]
         s == [Cur EXCEPT !.auth = authReducer(auth, SetToken(token, now + Lifetime("n1"))),
                          !.issued = issued + 1]
         t == ProviderCommit(s, auth, now)
     IN Assign(IF fault = "none" THEN t ELSE [t EXCEPT !.stored = stored],
               StorageEvent("persist", fault, "done"))
  /\ UNCHANGED <<now, mounted>>

\* logout(): the try block (lines 191-196) swallows a throwing removeItem
StorageLogout(fault) ==
  /\ Authenticated(auth)
  /\ LET t == ProviderCommit(LoggedOut(Cur), auth, now)
     IN Assign(IF fault = "denied" THEN [t EXCEPT !.stored = stored] ELSE t,
               StorageEvent("logout", fault, "done"))
  /\ UNCHANGED <<now, mounted>>

StorageNext ==
  \/ \E fault \in StorageFaults : StorageFetch(fault)
  \/ \E fault \in StorageFaults : StorageReceive(fault)
  \/ \E fault \in StorageFaults : \E i \in 1..MaxCreds : StorageDelete(fault, i)
  \/ \E fault \in StorageFaults : StorageClear(fault)
  \/ StorageBack
  \/ \E fault \in StorageFaults : StoragePersist(fault)
  \/ \E fault \in StorageFaults : StorageLogout(fault)

SpecStorage == StorageInit /\ [][StorageNext]_vars

\* C17: a failing storage operation of the session layer or of the
\* credential cache is caught: the handler completes, no error and no
\* offline notice is shown to the user.
C17_StorageFailuresCaught ==
  (last.ev \in {"fetch", "receive", "delete", "clear", "persist", "logout"}
     /\ last.status # "none") =>
    /\ last.outcome = "done"
    /\ ~fetchError /\ ~usingLocalFallback

(***************************************************************************)
(* Properties of the session among the calls in flight (checked under      *)
(* Spec).                                                                  *)
(***************************************************************************)
\* apiKeyAuth resolved and its caller called setToken with the token issued
TokenSet == last.ev = "resp" /\ last.outcome = "token"

\* C21: every setToken(token, expiresAt) leaves the session Authenticated
\* with that token, the token and its expiry written to the session storage
\* and the activity timestamp of the local storage set to the present.
C21_SetTokenPersists ==
  TokenSet =>
    /\ Authenticated(auth) /\ auth.token = last.token
    /\ stored.token = last.token /\ stored.expires = auth.expiresAt
    /\ stored.activity = now

\* C25: the session becomes Expired only from Authenticated; after a logout
\* a markExpired (the 401 of an earlier request) leaves it Unauthenticated.
C25_ExpiredOnlyFromAuthenticated ==
  [][(Expired(auth') /\ ~Expired(auth)) => Authenticated(auth)]_vars

\* C27: a session that holds a token holds the node identifier and the base
\* URL of the node that issued the token.
C27_TokenHasNode ==
  auth.token # NoToken =>
    /\ auth.nodeIdentifier = auth.token.node
    /\ auth.baseUrl = nodeIdentifierToUrl(auth.token.node)

\* C29: after logout() the local credential cache is empty.
C29_LogoutClearsCache ==
  last.ev = "logout" => Len(getLocalCredentials(credItem)) = 0

\* C23: a request that carries a bearer token goes to the node that issued
\* the token.
C23_RequestToIssuer ==
  last.req.token # NoToken => last.req.node = last.req.token.node

\* C22: after markExpired() the session is Expired, the session storage
\* holds neither the token nor its expiry, and the node identifier of the
\* local storage is what it was.
C22_MarkExpiredStorage ==
  [][last'.ev = "markExpired" =>
       /\ Expired(auth')
       /\ stored'.token = NoToken /\ stored'.expires = NoNumber
       /\ stored'.nodeId = stored.nodeId]_vars

\* markExpired() ended a session whose token was stored
C22_Witness ==
  /\ last.ev = "markExpired" /\ last.held # NoToken
  /\ Expired(auth)
  /\ stored.token = NoToken /\ stored.expires = NoNumber /\ TruthyStr(stored.nodeId)

(***************************************************************************)
(* Calls that overlap.  The same handlers as in Spec, with MaxOverlap      *)
(* calls in flight at a time: a sign-in started again while the first is   *)
(* pending, a reconnect while a fetch cycle of the earlier token is        *)
(* pending.                                                                *)
(***************************************************************************)
RaceNext ==
  \/ \E n \in NodeIds : OnboardingContinue(MaxOverlap, n)
  \/ OnboardingBack(MaxOverlap)
  \/ SignIn(MaxOverlap)
  \/ Reconnect(MaxOverlap)
  \/ \E i \in DOMAIN ops : \E status \in {"ok", "401", "net"} :
       AuthRespond(MaxOverlap, i, status)
  \/ \E i \in DOMAIN ops : \E status \in {"ok", "401", "net"} :
       ApiRespond(MaxOverlap, i, status)
  \/ Logout(MaxOverlap)
  \/ Poll(MaxOverlap)
  \/ \E token \in TokensOf(Cur) : Invalidate(MaxOverlap, token)

SpecRace == Init /\ [][RaceNext]_vars

\* no call of apiKeyAuth is in flight
AuthSettled == \A i \in DOMAIN ops : ops[i].kind \notin AuthKinds

\* C24: once every call of apiKeyAuth in flight has settled, the client's
\* base URL is the value setBaseUrl last gave it.  Until a token has been
\* issued nothing has called setBaseUrl, and that value is the initial "".
C24_OverrideConfined ==
  (issued = 0 /\ AuthSettled) => baseUrlC = ""

\* C26: a 401 answering a request issued with an earlier token leaves a
\* session that has since been given a fresh token Authenticated with it.
C26_Stale401Ignored ==
  (/\ last.ev = "resp" /\ last.kind \in ApiKinds /\ last.status = "401"
   /\ last.held # NoToken /\ last.token # last.held) =>
    auth.token = last.held

(***************************************************************************)
(* A delete while fetch cycles are pending.  The node produces the answer  *)
(* to a request from the wallet it holds at that moment; the response      *)
(* reaches the client later.                                               *)
(***************************************************************************)
\* the node answers the request the fetch cycle ops[i] waits on; the
\* response is on its way
Serve(i) ==
  /\ ops[i].kind = "fetch" /\ ~ops[i].served /\ Accepted(ops[i])
  /\ Assign([Cur EXCEPT !.ops[i].served = TRUE, !.ops[i].snap = wallet], NoEvent)
  /\ UNCHANGED <<now, mounted>>

DeleteNext ==
  \/ \E i \in DOMAIN ops : Serve(i)
  \/ \E i \in DOMAIN ops : \E status \in {"ok", "net"} : ApiRespond(MaxOverlap, i, status)
  \/ \E view \in {"dashboard", "detail"} :
     \E id \in {""} \cup {credentials[i].id : i \in DOMAIN credentials} :
       Navigate(MaxOverlap, view, id)
  \/ Poll(MaxOverlap)
  \/ DeleteStart(MaxOverlap)

SpecDelete == OverlapInit /\ [][DeleteNext]_vars

Cached(item, id) == \E i \in DOMAIN getLocalCredentials(item) : getLocalCredentials(item)[i].id = id

Held(w, id) == \E i \in DOMAIN w : w[i].id = id

\* C28: once a credential has been deleted (the node no longer holds it and
\* the local cache no longer lists it), the completion of a fetch cycle that
\* was pending does not put it back into the local cache.
C28_NoWriteBackAfterDelete ==
  [][\A id \in {"vc1"} :
       (/\ last'.ev = "resp" /\ last'.kind = "fetch"
        /\ ~Held(wallet, id) /\ ~Cached(credItem, id)) =>
         ~Cached(credItem', id)]_vars

(***************************************************************************)
(* Two nodes.  The wallet is held by node n1; node n2 holds no credential  *)
(* of this holder, so whatever is displayed in a session with n2 was       *)
(* cached in a session with n1.                                            *)
(***************************************************************************)
WalletAt(node) == IF node = "n1" THEN wallet ELSE <<>>

\* the node the request of ops[i] reached answers it from its own wallet
NodesServe(i) ==
  /\ ops[i].kind = "fetch" /\ ~ops[i].served /\ Accepted(ops[i])
  /\ Assign([Cur EXCEPT !.ops[i].served = TRUE, !.ops[i].snap = WalletAt(ops[i].node)],
            NoEvent)
  /\ UNCHANGED <<now, mounted>>

\* the response, or the failure of the request, reaches the client
NodesRespond(i, status) ==
  /\ status = "ok" => ops[i].served
  /\ ApiRespond(MaxInFlight, i, status)

NodesNext ==
  \/ \E n \in NodeIds : OnboardingContinue(MaxInFlight, n)
  \/ SignIn(MaxInFlight)
  \/ \E i \in DOMAIN ops : \E status \in {"ok", "net"} : AuthRespond(MaxInFlight, i, status)
  \/ \E i \in DOMAIN ops : NodesServe(i)
  \/ \E i \in DOMAIN ops : \E status \in {"ok", "401", "net"} : NodesRespond(i, status)
  \/ \E view \in {"dashboard", "account"} : Navigate(MaxInFlight, view, "")
  \/ Logout(MaxInFlight)
  \/ Poll(MaxInFlight)

SpecNodes == Init /\ [][NodesNext]_vars

\* C30: a session authenticated to node n2, which holds no credential,
\* displays none: nothing cached while connected to n1 is shown in it, the
\* fallback to the local cache included.
C30_NoForeignCredentials ==
  (Authenticated(auth) /\ auth.nodeIdentifier = "n2" /\ auth.token.node = "n2") =>
    Len(credentials) = 0

=============================================================================
